---- MODULE Spec2Model ----
(***************************************************************************)
(* Friend lookup of the friendship service: the tRPC procedures getById,    *)
(* getAll and getAll1 of my-friend-router.ts and the sub-queries they      *)
(* compose (userTotalFriendCount, userMutualFriendCount,                   *)
(* mutualFriendsCountAll), evaluated over the `users` and `friendships`    *)
(* tables.                                                                 *)
(*                                                                         *)
(* A relation is a set of rows; a join is the set of combinations of rows  *)
(* of its operands, so that a join that multiplies rows shows as several   *)
(* combinations; a result list is the bag of the selected columns.         *)
(* A nullable column is the empty set (SQL NULL) or a singleton.           *)
(* The columns fullName and phoneNumber are copied from `users` to the     *)
(* result untouched and are left out.                                      *)
(***************************************************************************)
EXTENDS Integers, FiniteSets, Sequences, Bags, TLC

\* Users created before the first request (Spec and SpecStore).
NumUsers == 3
\* Most requests sent under Spec.
MaxRequests == 3
\* Users of the friend graphs SpecGraph starts from.
GraphUsers == 4
\* Most rows of the relations SpecStore starts from.
MaxStoreRows == 3

\* users, friendships: the tables; reply: the response of the last procedure;
\* requests: the number of requests sent so far.
VARIABLES users, friendships, reply, requests

vars == <<users, friendships, reply, requests>>

\* FriendshipStatusSchema.Values
FriendshipStatusSchema == {"requested", "accepted", "declined"}

\* SQL NULL and a present value of a nullable column.
Null == {}
Some(x) == {x}

\* COALESCE(col, dflt) over a nullable column.
coalesce(col, dflt) == IF col = Null THEN dflt ELSE CHOOSE x \in col : TRUE

\* One row of the friendships table.
FriendshipRow(u, f, s) == [userId |-> u, friendUserId |-> f, status |-> s]

\* The rows of `fs` for the ordered pair (u, f): at most one (primary key).
RowsOf(fs, u, f) == {r \in fs : r.userId = u /\ r.friendUserId = f}

\* INSERT ... ON CONFLICT (userId, friendUserId) DO UPDATE SET status = s
Upsert(fs, u, f, s) == (fs \ RowsOf(fs, u, f)) \cup {FriendshipRow(u, f, s)}

\* The rows of `fs` that are accepted.
AcceptedRows(fs) == {r \in fs : r.status = "accepted"}

----
\* The aggregators.

\* A plausible slip: the status filter of line 206 forgotten.
userTotalFriendCountAnyStatus(fs) ==
  LET src == fs
  IN  { [userId |-> u,
         totalFriendCount |-> Cardinality({r \in src : r.userId = u})]
        : u \in {r.userId : r \in src} }

\* SELECT userId, COUNT(friendUserId) AS totalFriendCount FROM friendships
\* WHERE status = 'accepted' GROUP BY userId
userTotalFriendCount(fs) ==
  LET src == AcceptedRows(fs)
  IN  { [userId |-> u,
         totalFriendCount |-> Cardinality({r \in src : r.userId = u})]
        : u \in {r.userId : r \in src} }

\* GROUP BY f1.userId, f2.userId with COUNT(*) over the joined pairs <<f1, f2>>.
GroupCount(joined) ==
  { [user |-> g[1], friend |-> g[2],
     mutualFriendCount |->
       Cardinality({p \in joined : p[1].userId = g[1] /\ p[2].userId = g[2]})]
    : g \in {<<p[1].userId, p[2].userId>> : p \in joined} }

\* The joined pairs <<f1, f2>> of userMutualFriendCount: f1 is an accepted edge
\* of friendUserId, f2 an accepted edge of userId, both to the same far
\* endpoint. (The filters of the WHERE clause are applied to each side before
\* the join: the same relation.)
userMutualFriendJoin(fs, userId, friendUserId) ==
  { p \in {r \in AcceptedRows(fs) : r.userId = friendUserId}
            \X {r \in AcceptedRows(fs) : r.userId = userId} :
      p[1].friendUserId = p[2].friendUserId }

\* A plausible slip: the filter on f2.status (line 223) forgotten.
userMutualFriendCountNoF2Status(fs, userId, friendUserId) ==
  GroupCount({ p \in {r \in AcceptedRows(fs) : r.userId = friendUserId}
                       \X {r \in fs : r.userId = userId} :
                 p[1].friendUserId = p[2].friendUserId })

\* A plausible slip: the filter on f2.userId (line 225) forgotten.
userMutualFriendCountNoUserFilter(fs, userId, friendUserId) ==
  GroupCount({ p \in {r \in AcceptedRows(fs) : r.userId = friendUserId}
                       \X AcceptedRows(fs) :
                 p[1].friendUserId = p[2].friendUserId })

userMutualFriendCount(fs, userId, friendUserId) ==
  GroupCount(userMutualFriendJoin(fs, userId, friendUserId))

\* The joined pairs <<f1, f2>> of mutualFriendsCountAll: f2 is an accepted edge
\* of userId, f1 an accepted edge of another user to the same far endpoint.
mutualFriendsJoinAll(fs, userId) ==
  { p \in AcceptedRows(fs) \X {r \in AcceptedRows(fs) : r.userId = userId} :
      /\ p[1].friendUserId = p[2].friendUserId
      /\ p[1].userId # p[2].userId }

mutualFriendsCountAll(fs, userId) == GroupCount(mutualFriendsJoinAll(fs, userId))

----
\* Schemas of the response (base-schemas).

IdSchema(x) == x \in Int /\ x >= 1

\* A count column as the query returns it: nullable.
CountSchema(col) == col # Null /\ \A x \in col : x \in Int /\ x >= 0

----
\* The response of a procedure: a code and the list of its records, as a bag.

Response(op, code, data) == [op |-> op, code |-> code, data |-> data]

\* The response of the procedures that return nothing.
NoReply == Response("none", "OK", EmptyBag)

\* LEFT JOIN: the matching rows, or one NULL row when there is none.
LeftJoin(matches) == IF matches = {} THEN {Null} ELSE {Some(r) : r \in matches}

\* z.object({id, totalFriendCount, mutualFriendCount}).parse of one row.
RowValid(row) ==
  /\ IdSchema(row.id)
  /\ CountSchema(row.totalFriendCount)
  /\ CountSchema(row.mutualFriendCount)

Parsed(row) ==
  [id |-> row.id,
   totalFriendCount |-> coalesce(row.totalFriendCount, 0),
   mutualFriendCount |-> coalesce(row.mutualFriendCount, 0)]

----
\* getById

\* The rows of users AS friends JOIN friendships JOIN userTotalFriendCount, for
\* the friendships rows `rows` the WHERE clause keeps:
\* <<friends.id, friendships row, userTotalFriendCount row>>.
InnerJoins(us, rows, totals) ==
  UNION { { <<f, r, t>> : f \in {u \in us : u = r.friendUserId},
                          t \in {c \in totals : c.userId = r.friendUserId} }
          : r \in rows }

\* ... LEFT JOIN `mutuals` ON mutuals.user = friends.id:
\* <<friends.id, friendships row, total row, mutual row or NULL>>.
LeftJoinMutual(inner, mutuals) ==
  UNION { { <<x[1], x[2], x[3], m>> :
              m \in LeftJoin({r \in mutuals : r.user = x[1]}) }
          : x \in inner }

\* The joined rows of getById's query.
getByIdJoin(us, fs, sessionUserId, friendUserId) ==
  LeftJoinMutual(
    InnerJoins(us,
               {r \in fs : /\ r.userId = sessionUserId
                           /\ r.friendUserId = friendUserId
                           /\ r.status = "accepted"},
               userTotalFriendCount(fs)),
    userMutualFriendCount(fs, sessionUserId, friendUserId))

\* The select list of getById: the mutual count is coalesced to 0.
getByIdSelect(j) ==
  [id |-> j[1],
   totalFriendCount |-> Some(j[3].totalFriendCount),
   mutualFriendCount |->
     Some(coalesce({r.mutualFriendCount : r \in j[4]}, 0))]

\* The responses getById can give: executeTakeFirstOrThrow takes the first row
\* of a list whose order the store chooses, then the schema parses it.
getById(us, fs, sessionUserId, friendUserId) ==
  LET rows == {getByIdSelect(j) :
                 j \in getByIdJoin(us, fs, sessionUserId, friendUserId)}
  IN  IF rows = {}
      THEN {Response("getById", "NOT_FOUND", EmptyBag)}
      ELSE { IF RowValid(row)
             THEN Response("getById", "OK", SetToBag({Parsed(row)}))
             ELSE Response("getById", "ZodError", EmptyBag)
             : row \in rows }

----
\* getAll

\* The joined rows of getAll's query.
getAllJoin(us, fs, sessionUserId) ==
  LeftJoinMutual(
    InnerJoins(us,
               {r \in fs : r.userId = sessionUserId /\ r.status = "accepted"},
               userTotalFriendCount(fs)),
    mutualFriendsCountAll(fs, sessionUserId))

\* The select list of getAll: the mutual count as the left join gives it.
getAllSelect(j) ==
  [id |-> j[1],
   totalFriendCount |-> Some(j[3].totalFriendCount),
   mutualFriendCount |-> {r.mutualFriendCount : r \in j[4]}]

\* The rows of getAll's query, before the schema: the bag of the rows selected
\* from the joined rows.
getAllRows(us, fs, sessionUserId) ==
  LET joined == getAllJoin(us, fs, sessionUserId)
  IN  [row \in {getAllSelect(j) : j \in joined} |->
         Cardinality({j \in joined : getAllSelect(j) = row})]

\* The response of getAll: z.array(...).parse rejects the list when one row
\* is rejected.
getAll(us, fs, sessionUserId) ==
  LET rows == getAllRows(us, fs, sessionUserId)
  IN  IF \A row \in DOMAIN rows : RowValid(row)
      THEN Response("getAll", "OK",
                    [rec \in {Parsed(row) : row \in DOMAIN rows} |->
                       LET row == CHOOSE w \in DOMAIN rows : Parsed(w) = rec
                       IN  rows[row]])
      ELSE Response("getAll", "ZodError", EmptyBag)

----
\* getAll1

\* WITH userFriendships: the accepted edges of the session user.
userFriendships(fs, sessionUserId) ==
  {r \in AcceptedRows(fs) : r.userId = sessionUserId}

\* WITH friendsFriendships: the accepted edges of every other user.
friendsFriendships(fs, sessionUserId) ==
  {r \in AcceptedRows(fs) : r.userId # sessionUserId}

\* WITH mutualFriendCount: userFriendships f1 JOIN friendsFriendships f2 on the
\* far endpoint, counted by (f1.userId AS user, f2.userId AS friend).
mutualFriendCountCte(fs, sessionUserId) ==
  GroupCount({ p \in userFriendships(fs, sessionUserId)
                       \X friendsFriendships(fs, sessionUserId) :
                 p[1].friendUserId = p[2].friendUserId })

\* users AS friends JOIN friendsFriendships ON userId = friends.id
\* LEFT JOIN mutualFriendCount ON friend = friends.id:
\* <<friends.id, friendsFriendships row, mutual row or NULL>>.
getAll1Join(us, fs, sessionUserId) ==
  UNION { { <<f, r, m>> :
              f \in {u \in us : u = r.userId},
              m \in LeftJoin({c \in mutualFriendCountCte(fs, sessionUserId) :
                                c.friend = r.userId}) }
          : r \in friendsFriendships(fs, sessionUserId) }

\* GROUP BY friends.id: the lists of rows the query can give. The total is
\* COUNT(friendsFriendships.friendUserId) over the group; mutualFriendCount is
\* not aggregated, its value is that of a row of the group the store picks.
getAll1Rows(us, fs, sessionUserId) ==
  LET joined    == getAll1Join(us, fs, sessionUserId)
      ids       == {j[1] : j \in joined}
      group(x)  == {j \in joined : j[1] = x}
      picks(x)  == {{c.mutualFriendCount : c \in j[3]} : j \in group(x)}
  IN  { {[id |-> x,
          totalFriendCount |-> Some(Cardinality(group(x))),
          mutualFriendCount |-> pick[x]] : x \in ids}
        : pick \in {f \in [ids -> UNION {picks(x) : x \in ids}] :
                      \A x \in ids : f[x] \in picks(x)} }

\* The responses getAll1 can give.
getAll1(us, fs, sessionUserId) ==
  { IF \A row \in rows : RowValid(row)
    THEN Response("getAll1", "OK", SetToBag({Parsed(row) : row \in rows}))
    ELSE Response("getAll1", "ZodError", EmptyBag)
    : rows \in getAll1Rows(us, fs, sessionUserId) }

----
\* Actions

\* friendshipRequest.send: the session user u requests another user f; a request
\* of the same ordered pair replaces the status of the row it finds, whatever
\* that status is (the friendship-request router, as the design document
\* describes it).
Request(u, f) ==
  /\ u # f
  /\ requests < MaxRequests
  /\ requests' = requests + 1
  /\ friendships' = Upsert(friendships, u, f, "requested")
  /\ reply' = NoReply
  /\ UNCHANGED users

\* friendshipRequest.accept: the session user u accepts the request f sent;
\* both directions become accepted in one transaction.
Accept(u, f) ==
  /\ FriendshipRow(f, u, "requested") \in friendships
  /\ friendships' = Upsert(Upsert(friendships, f, u, "accepted"), u, f, "accepted")
  /\ reply' = NoReply
  /\ UNCHANGED <<users, requests>>

\* friendshipRequest.decline: the session user u declines the request f sent.
Decline(u, f) ==
  /\ FriendshipRow(f, u, "requested") \in friendships
  /\ friendships' = Upsert(friendships, f, u, "declined")
  /\ reply' = NoReply
  /\ UNCHANGED <<users, requests>>

GetById(u, f) ==
  /\ reply' \in getById(users, friendships, u, f)
  /\ UNCHANGED <<users, friendships, requests>>

GetAll(u) ==
  /\ reply' = getAll(users, friendships, u)
  /\ UNCHANGED <<users, friendships, requests>>

GetAll1(u) ==
  /\ reply' \in getAll1(users, friendships, u)
  /\ UNCHANGED <<users, friendships, requests>>

Query ==
  \/ \E u \in users, f \in users : GetById(u, f)
  \/ \E u \in users : GetAll(u)
  \/ \E u \in users : GetAll1(u)

Mutate ==
  \/ \E u \in users, f \in users : Request(u, f)
  \/ \E u \in users, f \in users : Accept(u, f)
  \/ \E u \in users, f \in users : Decline(u, f)

\* An empty store and NumUsers users.
Init ==
  /\ users = 1..NumUsers
  /\ friendships = {}
  /\ reply = NoReply
  /\ requests = 0

Next == Mutate \/ Query

Spec == Init /\ [][Next]_vars

\* The two accepted rows of each pair of friends of an undirected graph g.
GraphRows(g) ==
  UNION { {FriendshipRow(e[1], e[2], "accepted"),
           FriendshipRow(e[2], e[1], "accepted")} : e \in g }

\* A store that holds any graph of accepted friendships among GraphUsers users
\* (each reached by one request and one accept per pair of friends).
InitGraph ==
  /\ users = 1..GraphUsers
  /\ \E g \in SUBSET {e \in (1..GraphUsers) \X (1..GraphUsers) : e[1] < e[2]} :
       friendships = GraphRows(g)
  /\ reply = NoReply
  /\ requests = 0

NextQuery == Query

SpecGraph == InitGraph /\ [][NextQuery]_vars

\* A store that holds any relation of at most MaxStoreRows rows, one row for
\* an ordered pair, a pair of a user with itself included.
InitStore ==
  /\ users = 1..NumUsers
  /\ \E K \in SUBSET ((1..NumUsers) \X (1..NumUsers)) :
       /\ Cardinality(K) <= MaxStoreRows
       /\ \E st \in [K -> FriendshipStatusSchema] :
            friendships = {FriendshipRow(k[1], k[2], st[k]) : k \in K}
  /\ reply = NoReply
  /\ requests = 0

NextStore == Query

SpecStore == InitStore /\ [][NextStore]_vars

----
\* Vocabulary of the properties.

\* N(x): the users x has an accepted edge to.
Neighbours(x) ==
  {r.friendUserId : r \in {y \in friendships : y.userId = x /\ y.status = "accepted"}}

\* The edge (u, v) is accepted.
IsAccepted(u, v) == FriendshipRow(u, v, "accepted") \in friendships

\* The records of a response.
Records(resp) == DOMAIN resp.data

\* The number of records of a response that carry the id v.
CopiesOf(resp, v) ==
  BagCardinality([rec \in {x \in Records(resp) : x.id = v} |-> resp.data[rec]])

AllOf(u) == getAll(users, friendships, u)
OneOf(u, v) == getById(users, friendships, u, v)

----
\* C1: cross-consistency. For every requester A and every user B of which
\* getAll's query returns a row, getAll(A) returns B's record and its
\* mutualFriendCount is the one getById(A, B) returns, the case of no shared
\* neighbour included.
C1_CrossConsistency ==
  \A A \in users :
    \A row \in DOMAIN getAllRows(users, friendships, A) :
      /\ AllOf(A).code = "OK"
      /\ \E rec \in Records(AllOf(A)) :
           /\ rec.id = row.id
           /\ \A one \in OneOf(A, row.id) :
                /\ one.code = "OK"
                /\ \A r \in Records(one) :
                     r.mutualFriendCount = rec.mutualFriendCount

\* C2: zero-default. For an accepted friend v of u with no third user that
\* both have an accepted edge to, getById(u, v) and getAll(u) both return v's
\* record with mutualFriendCount = 0.
C2_ZeroDefault ==
  \A u \in users, v \in users :
    (IsAccepted(u, v) /\ (Neighbours(u) \cap Neighbours(v)) \ {u, v} = {}) =>
      /\ \A one \in OneOf(u, v) :
           /\ one.code = "OK"
           /\ \A r \in Records(one) : r.id = v /\ r.mutualFriendCount = 0
      /\ AllOf(u).code = "OK"
      /\ \E rec \in Records(AllOf(u)) : rec.id = v /\ rec.mutualFriendCount = 0

\* C3: batch mutual count. For every requester u and every row v of getAll's
\* query, getAll(u) returns v's record and its mutualFriendCount is the number
\* of users w, other than u and v, that u and v both have an accepted edge to.
C3_BatchMutualCount ==
  \A u \in users :
    \A row \in DOMAIN getAllRows(users, friendships, u) :
      /\ AllOf(u).code = "OK"
      /\ \E rec \in Records(AllOf(u)) :
           /\ rec.id = row.id
           /\ rec.mutualFriendCount =
                Cardinality({w \in users \ {u, row.id} :
                               IsAccepted(u, w) /\ IsAccepted(row.id, w)})

\* C4: getById(requester, target) returns the record of target if and only if
\* the edge (requester, target) is accepted, and NOT_FOUND otherwise.
C4_FoundIffAccepted ==
  \A u \in users, v \in users :
    \A one \in OneOf(u, v) :
      IF IsAccepted(u, v)
      THEN one.code = "OK" /\ \A r \in Records(one) : r.id = v
      ELSE one.code = "NOT_FOUND"

\* C5: getAll(requester) returns exactly one record for each accepted friend
\* of the requester and no other record.
C5_ExactlyTheFriends ==
  \A u \in users :
    /\ AllOf(u).code = "OK"
    /\ \A v \in users :
         CopiesOf(AllOf(u), v) = IF IsAccepted(u, v) THEN 1 ELSE 0

\* C6: total count. Every record getById or getAll returns for a target v
\* carries the number of accepted edges of v as totalFriendCount, and two
\* requesters with an accepted edge to the same target get the same total.
C6_TotalCount ==
  /\ \A u \in users, v \in users :
       \A one \in OneOf(u, v) :
         \A r \in Records(one) :
           r.totalFriendCount = Cardinality(Neighbours(r.id))
  /\ \A u \in users :
       \A r \in Records(AllOf(u)) :
         r.totalFriendCount = Cardinality(Neighbours(r.id))
  /\ \A B \in users :
       Cardinality(UNION { {<<one.code, {r.totalFriendCount : r \in Records(one)}>> :
                              one \in OneOf(A, B)}
                           : A \in {u \in users : IsAccepted(u, B)} }) <= 1

\* C6 happens: getById answered with a target that has one friend and an edge
\* that is not accepted, and two requesters have an accepted edge to it.
C6_Witness ==
  /\ reply.op = "getById"
  /\ reply.code = "OK"
  /\ \E r \in Records(reply) :
       /\ r.totalFriendCount = 1
       /\ \E y \in friendships : y.userId = r.id /\ y.status # "accepted"
       /\ Cardinality({u \in users : IsAccepted(u, r.id)}) >= 2

C8_MutualSymmetry ==
  \A A \in users, B \in users :
    (IsAccepted(A, B) /\ IsAccepted(B, A)) =>
      \A ab \in OneOf(A, B), ba \in OneOf(B, A) :
        /\ ab.code = "OK"
        /\ ba.code = "OK"
        /\ {r.mutualFriendCount : r \in Records(ab)}
             = {r.mutualFriendCount : r \in Records(ba)}

\* C8 happens: getById answered one shared neighbour for a pair accepted in
\* both directions.
C8_Witness ==
  /\ reply.op = "getById"
  /\ reply.code = "OK"
  /\ \E r \in Records(reply) :
       /\ r.mutualFriendCount = 1
       /\ \E u \in users :
            /\ IsAccepted(u, r.id) /\ IsAccepted(r.id, u)
            /\ reply \in OneOf(u, r.id)

\* C9: no self-counting. In every relation the store holds, the shared
\* neighbours getById(A, B) and getAll(A) count for B never contain A or B.
C9_NoSelfCounting ==
  \A A \in users :
    /\ \A B \in users :
         \A p \in userMutualFriendJoin(friendships, A, B) :
           p[1].friendUserId \notin {A, B}
    /\ \A p \in mutualFriendsJoinAll(friendships, A) :
         p[1].friendUserId \notin {A, p[1].userId}

\* C10: zero total default. A target v without an accepted outgoing edge, to
\* which the requester has an accepted edge, is returned by getById with
\* totalFriendCount = 0.
C10_ZeroTotalDefault ==
  \A u \in users, v \in users :
    (IsAccepted(u, v) /\ Neighbours(v) = {}) =>
      \A one \in OneOf(u, v) :
        /\ one.code = "OK"
        /\ \A r \in Records(one) : r.id = v /\ r.totalFriendCount = 0

\* C11: getAll1 is equivalent to getAll. For every requester u, getAll1(u)
\* gives the code and the records getAll(u) gives, and returns no record for
\* a user to whom u has no accepted edge.
C11_GetAll1Equivalent ==
  \A u \in users :
    \A resp \in getAll1(users, friendships, u) :
      /\ resp.code = AllOf(u).code
      /\ resp.data = AllOf(u).data
      /\ \A rec \in Records(resp) : IsAccepted(u, rec.id)

====
